---- MODULE Spec2Model ----
(***************************************************************************)
(* Model of the client-side source bundler (App.handleDownload) of the two *)
(* page variants: the pybind11 page (src/unnamed/part_001) and the memory  *)
(* pool page (src/unnamed/part_002).                                       *)
(*                                                                         *)
(* Texts are sequences of units.  A unit is a one-character string, or an  *)
(* atom: a longer string standing for a literal of the source that holds   *)
(* no character the regular expressions or the replacement patterns look   *)
(* at ("$", quotes, white space, the letters of import/export/from, or the *)
(* characters of the closing body marker at a position where they count).  *)
(***************************************************************************)
EXTENDS Integers, Sequences, FiniteSets, TLC

\* ------------------------------------------------------------------ text

\* \s of the regular expressions
IsWs(c) == c \in {" ", "\n", "\t"}

\* ['"] of the regular expressions
IsQuote(c) == c \in {"'", "\""}

\* the literal lit occurs in s at position i
HasAt(s, i, lit) ==
    /\ i >= 1
    /\ i + Len(lit) - 1 <= Len(s)
    /\ \A k \in 1..Len(lit) : s[i + k - 1] = lit[k]

\* the tail of s from position i (empty when i is past the end)
Tail_(s, i) == IF i > Len(s) THEN <<>> ELSE SubSeq(s, i, Len(s))

kwImport    == <<"i","m","p","o","r","t">>
kwExport    == <<"e","x","p","o","r","t">>
kwFrom      == <<"f","r","o","m">>
kwDefault   == <<"d","e","f","a","u","l","t">>
kwConst     == <<"c","o","n","s","t">>
kwFunction  == <<"f","u","n","c","t","i","o","n">>
kwClass     == <<"c","l","a","s","s">>
kwInterface == <<"i","n","t","e","r","f","a","c","e">>
kwType      == <<"t","y","p","e">>
kwEnum      == <<"e","n","u","m">>

\* an alternation that leaves enum out
DeclKeywordsWithoutEnum == <<kwConst, kwFunction, kwClass, kwInterface, kwType>>

\* the alternation (const|function|class|interface|type|enum), in its order
DeclKeywords == <<kwConst, kwFunction, kwClass, kwInterface, kwType, kwEnum>>

\* \s+ is greedy: the position after the longest run of white space from i
RECURSIVE WsEnd(_, _)
WsEnd(s, i) == IF i <= Len(s) /\ IsWs(s[i]) THEN WsEnd(s, i + 1) ELSE i

\* [^'"]+ is greedy: the position after the longest run of non-quotes from i
RECURSIVE NonQuoteEnd(_, _)
NonQuoteEnd(s, i) == IF i <= Len(s) /\ ~IsQuote(s[i]) THEN NonQuoteEnd(s, i + 1) ELSE i

\* ['"][^'"]+['"];? matched at q: the position after the match, 0 for no match
QuotedEnd(s, q) ==
    IF q > Len(s) \/ ~IsQuote(s[q]) THEN 0
    ELSE LET e == NonQuoteEnd(s, q + 1) IN
         IF e = q + 1 \/ e > Len(s) THEN 0
         ELSE IF e + 1 <= Len(s) /\ s[e + 1] = ";" THEN e + 2 ELSE e + 1

\* from\s+['"][^'"]+['"];? matched at j: the position after the match, or 0
FromTailEnd(s, j) ==
    IF ~HasAt(s, j, kwFrom) THEN 0
    ELSE LET w == WsEnd(s, j + 4) IN
         IF w = j + 4 THEN 0 ELSE QuotedEnd(s, w)

\* [\s\S]*? is lazy: the first position j >= i where the from-tail matches
RECURSIVE LazyFromEnd(_, _)
LazyFromEnd(s, j) ==
    IF j > Len(s) THEN 0
    ELSE LET e == FromTailEnd(s, j) IN
         IF e > 0 THEN e ELSE LazyFromEnd(s, j + 1)

\* /import\s+[\s\S]*?from\s+['"][^'"]+['"];?/ matched at i
ImportFromEnd(s, i) ==
    IF ~HasAt(s, i, kwImport) THEN 0
    ELSE LET w == WsEnd(s, i + 6) IN
         IF w = i + 6 THEN 0 ELSE LazyFromEnd(s, w)

\* /import\s+['"][^'"]+['"];?/ matched at i
ImportSideEffectEnd(s, i) ==
    IF ~HasAt(s, i, kwImport) THEN 0
    ELSE LET w == WsEnd(s, i + 6) IN
         IF w = i + 6 THEN 0 ELSE QuotedEnd(s, w)

\* a pattern /export\s+default/ that leaves the white space after the words
ExportDefaultEndKeywordsOnly(s, i) ==
    IF ~HasAt(s, i, kwExport) THEN 0
    ELSE LET w == WsEnd(s, i + 6) IN
         IF w = i + 6 \/ ~HasAt(s, w, kwDefault) THEN 0 ELSE w + 7

\* /export\s+default\s+/ matched at i
ExportDefaultEnd(s, i) ==
    IF ~HasAt(s, i, kwExport) THEN 0
    ELSE LET w == WsEnd(s, i + 6) IN
         IF w = i + 6 \/ ~HasAt(s, w, kwDefault) THEN 0
         ELSE LET w2 == WsEnd(s, w + 7) IN
              IF w2 = w + 7 THEN 0 ELSE w2

\* the first alternative of DeclKeywords found at w, 0 for none
DeclKeywordAt(s, w) ==
    LET hits == {k \in 1..Len(DeclKeywords) : HasAt(s, w, DeclKeywords[k])} IN
    IF hits = {} THEN 0 ELSE CHOOSE k \in hits : \A h \in hits : k <= h

\* /export\s+(const|function|class|interface|type|enum)/ matched at i
ExportDeclEnd(s, i) ==
    IF ~HasAt(s, i, kwExport) THEN 0
    ELSE LET w == WsEnd(s, i + 6) IN
         IF w = i + 6 \/ DeclKeywordAt(s, w) = 0 THEN 0
         ELSE w + Len(DeclKeywords[DeclKeywordAt(s, w)])

\* the four patterns of the transformation, by name
MatchEnd(re, s, i) ==
    CASE re = "importFrom"       -> ImportFromEnd(s, i)
      [] re = "importSideEffect" -> ImportSideEffectEnd(s, i)
      [] re = "exportDefault"    -> ExportDefaultEnd(s, i)
      [] re = "exportDecl"       -> ExportDeclEnd(s, i)

\* the replacement of a match [i, e): '' for the first three, '$1' for the last
Replacement(re, s, i, e) ==
    IF re = "exportDecl" THEN DeclKeywords[DeclKeywordAt(s, WsEnd(s, i + 6))] ELSE <<>>

\* String.prototype.replace with a /g pattern: left to right, each match
\* replaced, the search resuming after the match
RECURSIVE ReplaceAll(_, _, _)
ReplaceAll(re, s, i) ==
    IF i > Len(s) THEN <<>>
    ELSE LET e == MatchEnd(re, s, i) IN
         IF e > 0 THEN Replacement(re, s, i, e) \o ReplaceAll(re, s, e)
         ELSE <<s[i]>> \o ReplaceAll(re, s, i + 1)

\* the four replace steps applied to a fetched document, in the code's order;
\* each step works on the text the step before it gave (c0 is the fetched text)
Transform(code) ==
    CHOOSE c4 \in { ReplaceAll("exportDecl", c3, 1) :
                    c3 \in { ReplaceAll("exportDefault", c2, 1) :
                    c2 \in { ReplaceAll("importSideEffect", c1, 1) :
                    c1 \in { ReplaceAll("importFrom", c0, 1) : c0 \in {code} } } } } : TRUE

\* String.prototype.indexOf, counted from 1: the first position of lit in s,
\* 0 when s does not contain it
IndexOf(s, lit) ==
    LET hits == {i \in 1..Len(s) : HasAt(s, i, lit)} IN
    IF hits = {} THEN 0 ELSE CHOOSE i \in hits : \A h \in hits : i <= h

\* String.prototype.includes
Includes(s, lit) == IndexOf(s, lit) > 0

\* the unit that stands for the backtick character
Backtick == "BACKTICK"

\* GetSubstitution of a replacement string for a string pattern (no captures):
\* $$ is "$", $& the match, $ and a backtick the text before it, $ and a single
\* quote the text after it; any other "$" stands for itself.  The replacement
\* is read left to right, so in a run of "$" the pairs form from the left: a
\* "$" opens a pattern exactly when an even number of "$" stand right before it.
RECURSIVE DollarsBefore(_, _)
DollarsBefore(repl, k) ==
    IF k > 1 /\ repl[k - 1] = "$" THEN 1 + DollarsBefore(repl, k - 1) ELSE 0

OpensPattern(repl, k) ==
    /\ k >= 1
    /\ k < Len(repl)
    /\ repl[k] = "$"
    /\ repl[k + 1] \in {"$", "&", Backtick, "'"}
    /\ DollarsBefore(repl, k) % 2 = 0

\* what position k of the replacement contributes to the result
SubstitutionAt(repl, k, matched, before, after) ==
    IF OpensPattern(repl, k - 1) THEN <<>>
    ELSE IF OpensPattern(repl, k)
         THEN CASE repl[k + 1] = "$" -> <<"$">>
                [] repl[k + 1] = "&" -> matched
                [] repl[k + 1] = Backtick -> before
                [] repl[k + 1] = "'" -> after
         ELSE <<repl[k]>>

RECURSIVE SubstitutionOf(_, _, _, _, _, _)
SubstitutionOf(repl, lo, hi, matched, before, after) ==
    IF lo > hi THEN <<>>
    ELSE IF lo = hi THEN SubstitutionAt(repl, lo, matched, before, after)
    ELSE LET mid == (lo + hi) \div 2 IN
         SubstitutionOf(repl, lo, mid, matched, before, after)
         \o SubstitutionOf(repl, mid + 1, hi, matched, before, after)

GetSubstitution(repl, matched, before, after) ==
    SubstitutionOf(repl, 1, Len(repl), matched, before, after)

\* String.prototype.replace with a string pattern: the first occurrence only
ReplaceFirst(s, lit, repl) ==
    LET p == IndexOf(s, lit) IN
    IF p = 0 THEN s
    ELSE CHOOSE out \in { before \o GetSubstitution(r, lit, before, after) \o after :
                            before \in {SubSeq(s, 1, p - 1)},
                            after \in {Tail_(s, p + Len(lit))},
                            r \in {repl} } : TRUE

\* -------------------------------------------------------------- literals

\* the two pages: part_001 is the pybind11 page, part_002 the memory pool page
Variants == {"pybind11", "memorypool"}

\* a manifest that lists the application before its components
filesToBundleAppFirst ==
    <<"types.ts", "App.tsx", "components/QuantumScene.tsx", "components/Diagrams.tsx",
      "index.tsx">>

\* the manifest, in the order of the source
filesToBundle ==
    <<"types.ts", "components/QuantumScene.tsx", "components/Diagrams.tsx",
      "App.tsx", "index.tsx">>

\* the master import block of each page, one atom per line
masterImports(v) ==
    IF v = "pybind11" THEN
      <<"\n",
        "import React, { useState, useEffect, useRef } from 'react';", "\n",
        "import ReactDOM from 'react-dom/client';", "\n",
        "import * as THREE from 'three';", "\n",
        "import { Canvas, useFrame } from '@react-three/fiber';", "\n",
        "import { Float, MeshDistortMaterial, Sphere, Icosahedron, Box, Environment, Stars } from '@react-three/drei';", "\n",
        "import { motion } from 'framer-motion';", "\n",
        "import { ArrowDown, Menu, X, ExternalLink, Code2, AlertTriangle, Layers, Download, Loader2, Check, Copy, Terminal, ArrowRight, ArrowLeftRight, Hammer, FileCode, Monitor, Lock, Trash2, Split, Scale, CheckCircle2, XCircle } from 'lucide-react';", "\n",
        "import JSZip from 'jszip';", "\n",
        "import saveAs from 'file-saver';", "\n">>
    ELSE
      <<"\n",
        "import React, { useState, useEffect, useRef, useMemo } from 'react';", "\n",
        "import ReactDOM from 'react-dom/client';", "\n",
        "import * as THREE from 'three';", "\n",
        "import { Canvas, useFrame } from '@react-three/fiber';", "\n",
        "import { Float, Box, Environment, Stars, Instances, Instance } from '@react-three/drei';", "\n",
        "import { motion, AnimatePresence } from 'framer-motion';", "\n",
        "import { ArrowDown, Menu, X, ExternalLink, Code2, AlertTriangle, Layers, Download, Loader2, Check, Copy, Terminal, ArrowRight, Clock, Zap, Cpu, Hammer, FileCode, Monitor, Lock, Trash2, Split, Scale, CheckCircle2, XCircle, Server, Database, Bug, BookOpen, Component, Braces, AlertCircle, Info, Flame, Target, ShieldAlert, Workflow } from 'lucide-react';", "\n",
        "import JSZip from 'jszip';", "\n",
        "import saveAs from 'file-saver';", "\n">>

\* `\n\n/* --- Source: ${file} --- */\n${code}\n`
SourceSegment(file, code) ==
    <<"\n", "\n", "/* --- Source: ", file, " --- */", "\n">> \o code \o <<"\n">>

\* `\n/* Error loading ${file} */\n`
ErrorSegment(file) == <<"\n", "/* Error loading ", file, " */", "\n">>

babelScript == <<"<script src=\"https://unpkg.com/@babel/standalone/babel.min.js\"></script>">>

\* the opening and the closing tag of the inline script block
scriptOpen == "    <script type=\"text/babel\" data-type=\"module\" data-presets=\"typescript,react\">"
scriptEnd == "    </script>"

\* the inline script block around the combined code
mainScript(combinedCode) ==
    <<"\n", scriptOpen, "\n">> \o combinedCode \o <<"\n", scriptEnd>>

\* '</body>'
bodyClose == <<"<", "/", "b", "o", "d", "y", ">">>

\* the block the code puts into the base document
InjectedBlock(combinedCode) == babelScript \o <<"\n">> \o mainScript(combinedCode)

\* step 4 of the handler: html.includes('</body>') ? html.replace(...) : html += ...
Inject(html, combinedCode) ==
    IF Includes(html, bodyClose)
    THEN ReplaceFirst(html, bodyClose, InjectedBlock(combinedCode) \o <<"\n">> \o bodyClose)
    ELSE html \o InjectedBlock(combinedCode)

\* the README of each page, one atom per line
readme(v) ==
    IF v = "pybind11" THEN
      <<"# pybind11 Website Source (bundled)", "\n", "\n",
        "## How to Run", "\n", "\n",
        "### Steps", "\n",
        "   **Python:**", "\n", "   python -m http.server", "\n",
        "   **Node.js:**", "\n", "   npx serve", "\n",
        "### Dependencies", "\n">>
    ELSE
      <<"# Memory Pool Website Source", "\n", "\n", "See index.html for bundled source.">>

\* the lines of a README that start a local server
serverCommands == {"   python -m http.server", "   npx serve"}

\* the file name given to saveAs
zipName(v) == IF v = "pybind11" THEN "pybind11-website-bundled.zip" ELSE "memory-pool-site.zip"

\* console.warn in the per-file catch block: part_001 has it, part_002 has none
WarnsOnFileError(v) == v = "pybind11"

\* console.error in the outer catch block: part_001 has it, part_002 has none
LogsOnFailure(v) == v = "pybind11"

\* ------------------------------------------------------------ the network

\* The statements a served document is made of, by name.  They have the forms
\* the files of the repository use (import lines on one line and on several,
\* exported constants, a default export) and the other declaration forms of the
\* language.
sp == <<" ">>
nl == <<"\n">>

StmtText(st) ==
    CASE st = "importDefault"   -> kwImport \o <<" ", "A", " ">> \o kwFrom
                                   \o <<" ", "\"", ".", "/", "A", "\"", ";">> \o nl
      [] st = "importNamed"     -> kwImport \o <<" ", "{", "C", "}", " ">> \o kwFrom
                                   \o <<" ", "'", "f", "'", ";">> \o nl
      [] st = "importMultiLine" -> kwImport \o <<" ", "{", "\n", " ", "H", ",", "\n", "}", " ">> \o kwFrom
                                   \o <<" ", "'", ".", "/", "Q", "'", ";">> \o nl
      [] st = "importNamespace" -> kwImport \o <<" ", "*", " ", "a", "s", " ", "T", " ">> \o kwFrom
                                   \o <<" ", "'", "t", "'", ";">> \o nl
      [] st = "importSideEffect" -> kwImport \o <<" ", "'", ".", "/", "s", ".", "c", "s", "s", "'", ";">> \o nl
      [] st = "exportConst"     -> kwExport \o sp \o kwConst \o <<" ", "H", "=", "C", ";">> \o nl
      [] st = "exportFunction"  -> kwExport \o sp \o kwFunction \o <<" ", "f", "(", ")", "{", "}">> \o nl
      [] st = "exportClass"     -> kwExport \o sp \o kwClass \o <<" ", "K", "{", "}">> \o nl
      [] st = "exportInterface" -> kwExport \o sp \o kwInterface \o <<" ", "I", "{", "}">> \o nl
      [] st = "exportType"      -> kwExport \o sp \o kwType \o <<" ", "T", "=", "1", ";">> \o nl
      [] st = "exportEnum"      -> kwExport \o sp \o kwEnum \o <<" ", "E", "{", "}">> \o nl
      [] st = "exportDefault"   -> kwExport \o sp \o kwDefault \o <<" ", "A", ";">> \o nl
      [] st = "exportLet"       -> kwExport \o <<" ", "l", "e", "t", " ", "x", ";">> \o nl
      [] st = "exportVar"       -> kwExport \o <<" ", "v", "a", "r", " ", "y", ";">> \o nl
      [] st = "exportAsync"     -> kwExport \o <<" ", "a", "s", "y", "n", "c", " ">> \o kwFunction
                                   \o <<" ", "g", "(", ")", "{", "}">> \o nl
      [] st = "exportAbstract"  -> kwExport \o <<" ", "a", "b", "s", "t", "r", "a", "c", "t", " ">> \o kwClass
                                   \o <<" ", "J", "{", "}">> \o nl
      [] st = "exportList"      -> kwExport \o <<" ", "{", "H", "}", ";">> \o nl
      [] st = "reExport"        -> kwExport \o <<" ", "*", " ">> \o kwFrom
                                   \o <<" ", "'", ".", "/", "Q", "'", ";">> \o nl
      [] st = "const"           -> kwConst \o <<" ", "A", "=", "H", ";">> \o nl
      [] st = "call"            -> <<"A", "(", ")", ";">> \o nl
      [] st = "defaultResidue"  -> <<"A", ";">> \o nl
      [] st = "scriptTag"       -> <<"B", "=", "\"", "<", "/", "s", "c", "r", "i", "p", "t", ">", "\"", ";">> \o nl
      [] st = "dollar"          -> <<"A", "(", "/", "x", "/", ",", "\"", "$", "&", "\"", ")", ";">> \o nl
      [] st = "preambleTemplate" -> kwConst \o <<" ", "M", "=", Backtick, "\n">>
                                   \o kwImport \o <<" ", "R", " ">> \o kwFrom
                                   \o <<" ", "'", "r", "'", ";", "\n", Backtick, ";">> \o nl

\* the statement forms a module is made of
ImportForms ==
    {"importDefault", "importNamed", "importMultiLine", "importNamespace", "importSideEffect"}

\* the exported forms the last two patterns name
NamedExportForms ==
    {"exportConst", "exportFunction", "exportClass", "exportInterface", "exportType",
     "exportEnum", "exportDefault"}

OtherExportForms ==
    {"exportLet", "exportVar", "exportAsync", "exportAbstract", "exportList", "reExport"}

StmtForms == ImportForms \cup NamedExportForms \cup OtherExportForms \cup {"const"}

\* the text of a document: its statements, in order
RECURSIVE DocText(_)
DocText(d) == IF d = <<>> THEN <<>> ELSE StmtText(Head(d)) \o DocText(Tail(d))

\* documents with the shape of the five files of the manifest
RepoDocs ==
    << <<"exportType">>,
       <<"importNamed", "exportConst">>,
       <<"importDefault", "exportConst">>,
       <<"importMultiLine", "const", "preambleTemplate", "scriptTag", "exportDefault">>,
       <<"importDefault", "call">> >>

\* an index.tsx whose code holds "$&" in a string literal
DollarIndex == <<"importDefault", "dollar">>

\* base documents: one with the closing body marker, one without it
BaseText(b) ==
    CASE b = "withBodyClose" -> <<"<", "b", "o", "d", "y", ">", "<", "p", "/", ">">> \o bodyClose
                                \o <<"<", "/", "h", "t", "m", "l", ">">>
      [] b = "noBodyClose"   -> <<"<", "p", ">", "<", "/", "b", "o", "d", "y", "<", "/", "p", ">">>

BaseDocs == {"withBodyClose", "noBodyClose"}

\* What the site serves: the base document behind index.html and the document
\* behind each manifest entry.  It does not change while the page is open.
Deployments ==
    { [base |-> b, docs |-> [RepoDocs EXCEPT ![5] = x]] :
        b \in BaseDocs, x \in {RepoDocs[5], DollarIndex} }

\* how an awaited fetch() settles: rejected, resolved with !ok, resolved with ok
FetchOutcomes == {"reject", "notok", "ok"}

\* ---------------------------------------------------------------- names

\* The identifiers the master preamble declares, in the order of its import
\* lines (default and namespace bindings, then the names between braces).
PreambleNamesOfPybind11 ==
    <<"React", "useState", "useEffect", "useRef", "ReactDOM", "THREE", "Canvas",
      "useFrame", "Float", "MeshDistortMaterial", "Sphere", "Icosahedron", "Box",
      "Environment", "Stars", "motion", "ArrowDown", "Menu", "X", "ExternalLink",
      "Code2", "AlertTriangle", "Layers", "Download", "Loader2", "Check", "Copy",
      "Terminal", "ArrowRight", "ArrowLeftRight", "Hammer", "FileCode", "Monitor",
      "Lock", "Trash2", "Split", "Scale", "CheckCircle2", "XCircle", "JSZip",
      "saveAs">>

\* a memory-pool page whose preamble is still the one of the pybind11 page
PreambleNamesStale(v) == PreambleNamesOfPybind11

\* `const masterImports`, as the names it declares
PreambleNames(v) ==
    IF v = "pybind11" THEN PreambleNamesOfPybind11
    ELSE <<"React", "useState", "useEffect", "useRef", "useMemo", "ReactDOM", "THREE",
         "Canvas", "useFrame", "Float", "Box", "Environment", "Stars", "Instances",
         "Instance", "motion", "AnimatePresence", "ArrowDown", "Menu", "X",
         "ExternalLink", "Code2", "AlertTriangle", "Layers", "Download", "Loader2",
         "Check", "Copy", "Terminal", "ArrowRight", "Clock", "Zap", "Cpu", "Hammer",
         "FileCode", "Monitor", "Lock", "Trash2", "Split", "Scale", "CheckCircle2",
         "XCircle", "Server", "Database", "Bug", "BookOpen", "Component", "Braces",
         "AlertCircle", "Info", "Flame", "Target", "ShieldAlert", "Workflow", "JSZip",
         "saveAs">>

\* the entry document index.tsx mounts the application with react-dom
EntryImports == {"React", "ReactDOM"}

\* the shared types of types.ts import nothing
TypesImports == {}

\* The identifiers manifest entry i of page v imports from external packages
\* (the import lines at the top of each document; imports from './...' are
\* local).  On the memory-pool page App.tsx imports Box from lucide-react and
\* components/QuantumScene.tsx imports Box from @react-three/drei; App.tsx
\* never uses it.
ExternalImports(v, i) ==
    CASE i = 1 -> TypesImports
      [] i = 5 -> EntryImports
      [] i = 2 -> IF v = "pybind11"
                  THEN {"React", "useRef", "Canvas", "useFrame", "Float", "MeshDistortMaterial",
                        "Sphere", "Icosahedron", "Box", "Environment", "Stars", "THREE"}
                  ELSE {"React", "useRef", "useMemo", "Canvas", "useFrame", "Float", "Box",
                        "Environment", "Stars", "Instances", "Instance", "THREE"}
      [] i = 3 -> IF v = "pybind11"
                  THEN {"React", "useState", "useEffect", "useRef", "motion", "Check", "Copy",
                        "Terminal", "ArrowRight", "ArrowLeftRight"}
                  ELSE {"React", "useState", "useEffect", "useRef", "motion", "AnimatePresence",
                        "Check", "Copy", "Terminal", "ArrowRight", "Clock", "Zap", "Cpu",
                        "AlertTriangle"}
      [] i = 4 -> IF v = "pybind11"
                  THEN {"React", "useState", "useEffect", "ArrowDown", "Menu", "X", "ExternalLink",
                        "Code2", "AlertTriangle", "Layers", "Download", "Loader2", "Hammer",
                        "FileCode", "Monitor", "Lock", "Trash2", "Split", "Scale", "CheckCircle2",
                        "XCircle", "JSZip", "saveAs"}
                  ELSE {"React", "useState", "useEffect", "ArrowDown", "Menu", "X", "Download",
                        "Loader2", "Hammer", "Box", "Server", "Database", "Clock", "Cpu", "Zap",
                        "Layers", "AlertTriangle", "CheckCircle2", "XCircle", "Info", "Flame",
                        "Target", "ShieldAlert", "Terminal", "Workflow", "Scale", "JSZip", "saveAs"}

\* index.tsx declares the root element and the root it renders App into
EntryDeclares == {"rootElement", "root"}

\* index.tsx imports App from './App'
EntryReferences == {"App"}

\* types.ts declares no name the other documents declare or import
TypesDeclares == {}

\* the top-level names the document behind a path declares on page v
Declares(v, file) ==
    CASE file = "types.ts" -> TypesDeclares
      [] file = "components/QuantumScene.tsx" ->
            IF v = "pybind11" THEN {"GeometricNode", "HeroScene", "NetworkScene"}
            ELSE {"MemoryBlock", "HeroScene", "NetworkScene"}
      [] file = "components/Diagrams.tsx" ->
            IF v = "pybind11" THEN {"BridgeAnimation", "TypeMappingTable", "CodeSnippet"}
            ELSE {"MemoryPoolVisualizer", "ComplexityTable", "CodeSnippet"}
      [] file = "App.tsx" -> {"FeatureCard", "App"}
      [] file = "index.tsx" -> EntryDeclares

\* the names the document behind a path imports from other documents
References(v, file) ==
    CASE file = "types.ts" -> {}
      [] file = "components/QuantumScene.tsx" -> {}
      [] file = "components/Diagrams.tsx" -> {}
      [] file = "App.tsx" ->
            IF v = "pybind11"
            THEN {"HeroScene", "NetworkScene", "BridgeAnimation", "TypeMappingTable", "CodeSnippet"}
            ELSE {"HeroScene", "MemoryPoolVisualizer", "ComplexityTable", "CodeSnippet"}
      [] file = "index.tsx" -> EntryReferences

\* ---------------------------------------------------------------- state

VARIABLES
    variant,        \* which page this is
    isDownloading,  \* the React state set by setIsDownloading
    rendered,       \* the isDownloading the last render gave to handleDownload
                    \* (its closure) and to the desktop button (disabled=)
    menuOpen,       \* the React state set by setMenuOpen
    deployed,       \* the documents the site serves
    call,           \* how the latest call of handleDownload went: "passed" the
                    \* guard, "returned" at it ("none": no call yet)
    runs,           \* the calls of handleDownload that are past the guard and
                    \* not yet through their finally block, oldest first
    finished,       \* the last call that went through its finally block, if any
                    \* (a record for the claims; the handler never reads it)
    blocks,         \* MemoryPoolVisualizer: the React state set by setBlocks
                    \* (TRUE = free, FALSE = used), indexed from 0
    pointerIndex,   \* MemoryPoolVisualizer: the React state set by setPointerIndex
    action,         \* MemoryPoolVisualizer: the React state set by setAction
    captured,       \* the blocks array the running interval's callback closed over
    effectDue,      \* setBlocks gave a new array; React has yet to render and
                    \* to run the effect again
    interval,       \* milliseconds until the running interval ticks next
    timeouts        \* the delayed updates set by setTimeout and not yet run, oldest
                    \* first: milliseconds left, and the index and value they write

siteVars == <<variant, deployed, isDownloading, rendered, menuOpen, call, runs, finished>>

poolVars == <<blocks, pointerIndex, action, captured, effectDue, interval, timeouts>>

vars == <<siteVars, poolVars>>

Files == 1..Len(filesToBundle)

Range(f) == {f[x] : x \in DOMAIN f}

\* a call of handleDownload right after `const htmlRes = await fetch('index.html')`
\* was issued.  base: "pending", "reject", "notok", "unreadable", or "read";
\* results[i]: "pending", "failed" or "loaded"; pending, reading: the fetches and body reads awaited (0 is index.html);
\* issued: every fetch issued, in order; zip: how generateAsync settled
NewRun ==
    [ pc |-> "fetchBase", base |-> "pending", html |-> <<>>, combinedCode |-> <<>>,
      cursor |-> 0, pending |-> {0}, reading |-> {}, issued |-> <<0>>,
      results |-> [i \in Files |-> "pending"], zipFiles |-> <<>>, zip |-> "none",
      saved |-> <<>>, alerts |-> 0, warns |-> <<>>, errors |-> 0 ]

\* a handler without the guard line
GuardNeverReturns(flag) == FALSE

\* `if (isDownloading) return;` on the flag the handler's closure holds
GuardReturns(flag) == flag

\* a loop that issues all five fetches at once and awaits them together
IssueAllAt(c) == IF c = 1 THEN [i \in 1..Len(filesToBundle) |-> i] ELSE <<>>

\* the fetches issued when the for loop reaches iteration c: one, `fetch(file)`
IssueAt(c) == IF c <= Len(filesToBundle) THEN <<c>> ELSE <<>>

\* an outer catch block that logs and shows no alert
CatchWithoutAlert(v, run) ==
    [run EXCEPT !.errors = @ + 1, !.pending = {}, !.reading = {}]

\* the outer catch block: console.error (part_001 only) and alert
Catch(v, run) ==
    [run EXCEPT !.alerts = @ + 1,
                !.errors = IF LogsOnFailure(v) THEN @ + 1 ELSE @,
                !.pending = {}, !.reading = {}]

\* a handler that never adds the README to the archive
PackageWithoutReadme(v, run) ==
    LET h == Inject(run.html, run.combinedCode) IN
    [run EXCEPT !.html = h,
                !.zipFiles = << [name |-> "index.html", content |-> h] >>,
                !.pc = "zip"]

\* steps 4 to 6 up to `await zip.generateAsync`: inject, zip.file twice
Package(v, run) ==
    CHOOSE packed \in
        { [run EXCEPT !.html = h,
                      !.zipFiles = << [name |-> "index.html", content |-> h],
                                      [name |-> "README.md", content |-> readme(v)] >>,
                      !.pc = "zip"] : h \in {Inject(run.html, run.combinedCode)} } : TRUE

\* the end of one loop iteration: the next one starts, or the loop is left
NextIteration(v, run) ==
    CHOOSE next \in
        { IF at.cursor + 1 > Len(filesToBundle)
          THEN Package(v, [at EXCEPT !.cursor = @ + 1])
          ELSE [at EXCEPT !.cursor = @ + 1,
                          !.pending = @ \cup Range(IssueAt(at.cursor + 1)),
                          !.issued = @ \o IssueAt(at.cursor + 1)] : at \in {run} } : TRUE

\* an inner catch block that fetches the failed file a second time
FileFailedRetries(v, run, i) ==
    IF Cardinality({k \in DOMAIN run.issued : run.issued[k] = i}) < 2
    THEN [run EXCEPT !.pending = {i}, !.reading = {}, !.issued = Append(@, i)]
    ELSE NextIteration(v,
           [run EXCEPT !.pending = @ \ {i}, !.reading = @ \ {i},
                       !.results[i] = "failed",
                       !.combinedCode = @ \o ErrorSegment(filesToBundle[i])])

\* an inner catch block that leaves nothing in the bundle
FileFailedSkipsFile(v, run, i) ==
    NextIteration(v,
      [run EXCEPT !.pending = @ \ {i}, !.reading = @ \ {i},
                  !.results[i] = "failed",
                  !.warns = IF WarnsOnFileError(v) THEN Append(@, filesToBundle[i]) ELSE @])

\* an inner catch block that gives up on the entries after the failed one
FileFailedLeavesLoop(v, run, i) ==
    Package(v,
      [run EXCEPT !.pending = @ \ {i}, !.reading = @ \ {i},
                  !.results[i] = "failed",
                  !.warns = IF WarnsOnFileError(v) THEN Append(@, filesToBundle[i]) ELSE @,
                  !.combinedCode = @ \o ErrorSegment(filesToBundle[i])])

\* the inner catch block: console.warn (part_001 only) and the placeholder
FileFailed(v, run, i) ==
    NextIteration(v,
      [run EXCEPT !.pending = @ \ {i}, !.reading = @ \ {i},
                  !.results[i] = "failed",
                  !.warns = IF WarnsOnFileError(v) THEN Append(@, filesToBundle[i]) ELSE @,
                  !.combinedCode = @ \o ErrorSegment(filesToBundle[i])])

\* a loop body that puts the new segment in front of the code gathered so far
FileLoadedPrepends(v, run, i, code) ==
    NextIteration(v,
      [run EXCEPT !.reading = @ \ {i},
                  !.results[i] = "loaded",
                  !.combinedCode = SourceSegment(filesToBundle[i], Transform(code)) \o @])

\* the body of the inner try block after `await res.text()` gave the text code
FileLoaded(v, run, i, code) ==
    NextIteration(v,
      [run EXCEPT !.reading = @ \ {i},
                  !.results[i] = "loaded",
                  !.combinedCode = @ \o SourceSegment(filesToBundle[i], Transform(code))])

\* what is kept of a call once it is over
Summary(run) == [run EXCEPT !.pc = "done", !.html = <<>>, !.zipFiles = <<>>]

RemoveAt(s, r) == [k \in 1..(Len(s) - 1) |-> IF k < r THEN s[k] ELSE s[k + 1]]

\* ------------------------------------------- the free-list visualizer

\* a JavaScript array: a function on 0 .. length - 1
ArrayOf(s) == [i \in 0..(Len(s) - 1) |-> s[i + 1]]

Length(a) == Cardinality(DOMAIN a)

\* `useState([true, true, true, true, false, false])`
initialBlocks == ArrayOf(<<TRUE, TRUE, TRUE, TRUE, FALSE, FALSE>>)

\* Array.prototype.findIndex for the predicates `b => b === v`: the lowest
\* index holding v, or -1
findIndex(a, v) ==
    IF \E i \in DOMAIN a : a[i] = v
    THEN CHOOSE i \in DOMAIN a : a[i] = v /\ \A j \in DOMAIN a : a[j] = v => i <= j
    ELSE -1

\* `blocks.map((b, i) => !b ? i : -1).filter(i => i !== -1)`: the indices of
\* the used blocks, ascending
usedIndices(a) ==
    LET used == {i \in DOMAIN a : ~a[i]}
    IN  [k \in 0..(Cardinality(used) - 1) |->
            CHOOSE i \in used : Cardinality({j \in used : j < i}) = k]

\* Math.random() gives k / RandomSteps for some k of Randoms
RandomSteps == 10

Randoms == 0..(RandomSteps - 1)

\* `Math.random() > 0.4`
AboveThreshold(k) == 10 * k > 4 * RandomSteps

\* `Math.floor(Math.random() * n)`
FloorOfProduct(k, n) == (k * n) \div RandomSteps

\* a callback that allocates the highest-indexed free block
TickStepTakesLast(bs, r1, r2) ==
    LET freeIdx == IF \E i \in DOMAIN bs : bs[i]
                   THEN CHOOSE i \in DOMAIN bs : bs[i] /\ \A j \in DOMAIN bs : bs[j] => j <= i
                   ELSE -1
        usedIdx == findIndex(bs, FALSE)
    IN  IF AboveThreshold(r1) /\ freeIdx # -1
        THEN [kind |-> "ALLOC", index |-> freeIdx, free |-> FALSE]
        ELSE IF usedIdx # -1
        THEN [kind |-> "FREE",
              index |-> usedIndices(bs)[FloorOfProduct(r2, Length(usedIndices(bs)))],
              free |-> TRUE]
        ELSE [kind |-> "NONE", index |-> -1, free |-> FALSE]

\* a callback that frees a block only when the random number chose freeing
TickStepWithoutFallback(bs, r1, r2) ==
    LET freeIdx == findIndex(bs, TRUE)
        usedIdx == findIndex(bs, FALSE)
    IN  IF AboveThreshold(r1) /\ freeIdx # -1
        THEN [kind |-> "ALLOC", index |-> freeIdx, free |-> FALSE]
        ELSE IF ~AboveThreshold(r1) /\ usedIdx # -1
        THEN [kind |-> "FREE",
              index |-> usedIndices(bs)[FloorOfProduct(r2, Length(usedIndices(bs)))],
              free |-> TRUE]
        ELSE [kind |-> "NONE", index |-> -1, free |-> FALSE]

\* what one run of the interval's callback decides on the array bs it closed
\* over, with r1 and r2 what Math.random() returns: the status it sets, and
\* the index and the value its delayed update will write
TickStep(bs, r1, r2) ==
    LET freeIdx == findIndex(bs, TRUE)
        usedIdx == findIndex(bs, FALSE)
    IN  IF AboveThreshold(r1) /\ freeIdx # -1
        THEN [kind |-> "ALLOC", index |-> freeIdx, free |-> FALSE]
        ELSE IF usedIdx # -1
        THEN [kind |-> "FREE",
              index |-> usedIndices(bs)[FloorOfProduct(r2, Length(usedIndices(bs)))],
              free |-> TRUE]
        ELSE [kind |-> "NONE", index |-> -1, free |-> FALSE]

\* a callback that sets the status back to IDLE when it takes neither branch
ActionAfterTickResets(a, kind) == IF kind = "NONE" THEN "IDLE" ELSE kind

\* `setAction("ALLOC")`, `setAction("FREE")`; a tick that takes neither branch
\* sets nothing
ActionAfterTick(a, kind) == IF kind = "NONE" THEN a ELSE kind

\* an updater that writes the block next to the one it was set for as well
UpdatedWithNeighbour(prev, index, free) ==
    [i \in DOMAIN prev |-> IF i = index \/ i = index + 1 THEN free ELSE prev[i]]

\* the updater of the delayed setBlocks: `next = [...prev]; next[index] = free`
Updated(prev, index, free) == [i \in DOMAIN prev |-> IF i = index THEN free ELSE prev[i]]

\* the blocks that render the Head marker:
\* `isFree && i === blocks.findIndex(b => b)`
HeadMarkers(bs) == {i \in DOMAIN bs : bs[i] /\ i = findIndex(bs, TRUE)}

\* the text after `Status: `
StatusText(a) ==
    IF a = "ALLOC" THEN "Allocating (Pop)"
    ELSE IF a = "FREE" THEN "Deallocating (Push)" ELSE "Idle"

\* `setInterval(..., 2000)` and `setTimeout(..., 500)`
IntervalMs == 2000

TimeoutMs == 500

\* the component after its first render and the first run of its effect
PoolInit ==
    /\ blocks = initialBlocks
    /\ pointerIndex = 0
    /\ action = "IDLE"
    /\ captured = initialBlocks
    /\ effectDue = FALSE
    /\ interval = IntervalMs
    /\ timeouts = <<>>

Init ==
    /\ variant \in Variants
    /\ isDownloading = FALSE
    /\ rendered = FALSE
    /\ menuOpen = FALSE
    /\ deployed \in Deployments
    /\ call = "none"
    /\ runs = <<>>
    /\ finished = <<>>
    /\ PoolInit

\* a click on one of the two download buttons.  The desktop button is disabled
\* while the rendered flag is set; the mobile button exists while the menu is
\* open.  React re-renders at the end of the click, before any other event.
ClickOn(entry, keep) ==
    /\ entry = "desktop" => ~rendered
    /\ entry = "mobile" => menuOpen
    /\ IF GuardReturns(rendered)
       THEN /\ call' = "returned"
            /\ UNCHANGED <<isDownloading, rendered, runs>>
       ELSE /\ call' = "passed"
            /\ isDownloading' = TRUE
            /\ rendered' = TRUE
            /\ runs' = Append(runs, NewRun)
    /\ finished' = IF keep \/ GuardReturns(rendered) THEN finished ELSE <<>>
    /\ UNCHANGED <<poolVars, variant, deployed, menuOpen>>

\* finished is the record of the latest call until the next one passes the guard
Click(entry) == ClickOn(entry, FALSE)

\* a menu button that also drops the call in flight
ToggleMenuCancels ==
    /\ menuOpen' = ~menuOpen
    /\ isDownloading' = FALSE
    /\ rendered' = FALSE
    /\ runs' = <<>>
    /\ UNCHANGED <<poolVars, variant, deployed, call, finished>>

\* the menu button: setMenuOpen(!menuOpen), and the render that follows
ToggleMenu ==
    /\ menuOpen' = ~menuOpen
    /\ rendered' = isDownloading
    /\ UNCHANGED <<poolVars, variant, deployed, isDownloading, call, runs, finished>>

\* the render React schedules after setIsDownloading(false)
Render ==
    /\ rendered # isDownloading
    /\ rendered' = isDownloading
    /\ UNCHANGED <<poolVars, variant, deployed, isDownloading, menuOpen, call, runs, finished>>

\* a handler whose finally block leaves the flag as it is
FlagLeftByFinally(flag) == flag

\* `setIsDownloading(false)` in the finally block
FlagAfterFinally(flag) == FALSE

\* combinedCode kept outside the handler and only ever appended to
InitialCombinedCodeKept(v) ==
    (IF finished = <<>> THEN <<>> ELSE finished[1].combinedCode) \o masterImports(v)

\* `let combinedCode = masterImports;`
InitialCombinedCode(v) == masterImports(v)

\* the finally block, at the end of the step that leaves the try statement
Finish(r, run) ==
    /\ isDownloading' = FlagAfterFinally(isDownloading)
    /\ runs' = RemoveAt(runs, r)
    /\ finished' = <<Summary(run)>>

\* a handler that goes on to the loop when index.html could not be fetched
FetchBaseSettleGoesOn(r, o) ==
    /\ runs[r].pc = "fetchBase"
    /\ runs' = [runs EXCEPT ![r] =
                  IF o = "ok"
                  THEN [@ EXCEPT !.pc = "readBase", !.pending = {}, !.reading = {0}]
                  ELSE NextIteration(variant,
                         [@ EXCEPT !.pc = "files", !.base = o, !.pending = {},
                                   !.combinedCode = InitialCombinedCode(variant)])]
    /\ UNCHANGED <<poolVars, variant, deployed, isDownloading, rendered, menuOpen, call, finished>>

\* `await fetch('index.html')` settles, and `if (!htmlRes.ok) throw`
FetchBaseSettle(r, o) ==
    /\ runs[r].pc = "fetchBase"
    /\ IF o = "ok"
       THEN /\ runs' = [runs EXCEPT ![r] = [@ EXCEPT !.pc = "readBase",
                                                     !.pending = {}, !.reading = {0}]]
            /\ UNCHANGED <<isDownloading, finished>>
       ELSE Finish(r, Catch(variant, [runs[r] EXCEPT !.base = o]))
    /\ UNCHANGED <<poolVars, variant, deployed, rendered, menuOpen, call>>

\* `await htmlRes.text()` settles (resolves, or rejects); the loop starts
ReadBaseSettle(r, ok) ==
    /\ runs[r].pc = "readBase"
    /\ IF ~ok
       THEN Finish(r, Catch(variant, [runs[r] EXCEPT !.base = "unreadable"]))
       ELSE /\ runs' = [runs EXCEPT ![r] =
                           NextIteration(variant,
                             [@ EXCEPT !.pc = "files", !.base = "read",
                                       !.reading = {},
                                       !.html = BaseText(deployed.base),
                                       !.combinedCode = InitialCombinedCode(variant)])]
            /\ UNCHANGED <<isDownloading, finished>>
    /\ UNCHANGED <<poolVars, variant, deployed, rendered, menuOpen, call>>

\* `await fetch(file)` settles, and `if (!res.ok) throw`
FetchFileSettle(r, i, o) ==
    /\ runs[r].pc = "files"
    /\ i \in runs[r].pending
    /\ runs' = [runs EXCEPT ![r] =
                  IF o = "ok"
                  THEN [@ EXCEPT !.pending = @ \ {i}, !.reading = @ \cup {i}]
                  ELSE FileFailed(variant, @, i)]
    /\ UNCHANGED <<poolVars, variant, deployed, isDownloading, rendered, menuOpen, call, finished>>

\* `await res.text()` settles (resolves, or rejects)
ReadFileSettle(r, i, ok) ==
    /\ runs[r].pc = "files"
    /\ i \in runs[r].reading
    /\ runs' = [runs EXCEPT ![r] =
                  IF ok THEN FileLoaded(variant, @, i, DocText(deployed.docs[i]))
                  ELSE FileFailed(variant, @, i)]
    /\ UNCHANGED <<poolVars, variant, deployed, isDownloading, rendered, menuOpen, call, finished>>

\* a handler that lets a failed zip generation pass without a word
ZipSettleSwallows(r, ok) ==
    /\ runs[r].pc = "zip"
    /\ IF ok
       THEN Finish(r, [runs[r] EXCEPT !.zip = "ok",
                          !.saved = Append(@, [name |-> zipName(variant),
                                               files |-> runs[r].zipFiles])])
       ELSE Finish(r, [runs[r] EXCEPT !.zip = "fail"])
    /\ UNCHANGED <<poolVars, variant, deployed, rendered, menuOpen, call>>

\* `await zip.generateAsync` settles; saveAs, or the outer catch block
ZipSettle(r, ok) ==
    /\ runs[r].pc = "zip"
    /\ IF ok
       THEN Finish(r, [runs[r] EXCEPT !.zip = "ok",
                          !.saved = Append(@, [name |-> zipName(variant),
                                               files |-> runs[r].zipFiles])])
       ELSE Finish(r, Catch(variant, [runs[r] EXCEPT !.zip = "fail"]))
    /\ UNCHANGED <<poolVars, variant, deployed, rendered, menuOpen, call>>

\* a step of a call past the guard: one awaited promise settles
Settle ==
    \E r \in DOMAIN runs :
        \/ \E o \in FetchOutcomes : FetchBaseSettle(r, o)
        \/ \E ok \in BOOLEAN : ReadBaseSettle(r, ok)
        \/ \E i \in Files, o \in FetchOutcomes : FetchFileSettle(r, i, o)
        \/ \E i \in Files, ok \in BOOLEAN : ReadFileSettle(r, i, ok)
        \/ \E ok \in BOOLEAN : ZipSettle(r, ok)

Next ==
    \/ \E entry \in {"desktop", "mobile"} : Click(entry)
    \/ ToggleMenu
    \/ Render
    \/ \E r \in DOMAIN runs, o \in FetchOutcomes : FetchBaseSettle(r, o)
    \/ \E r \in DOMAIN runs, ok \in BOOLEAN : ReadBaseSettle(r, ok)
    \/ \E r \in DOMAIN runs, i \in Files, o \in FetchOutcomes : FetchFileSettle(r, i, o)
    \/ \E r \in DOMAIN runs, i \in Files, ok \in BOOLEAN : ReadFileSettle(r, i, ok)
    \/ \E r \in DOMAIN runs, ok \in BOOLEAN : ZipSettle(r, ok)

Spec == Init /\ [][Next]_vars

\* every awaited fetch, body read and zip generation settles in the end
LiveSpec == Spec /\ WF_vars(Settle)

\* The page used again and again against a network that answers each request
\* the way it answered it in the call before; the record of the call before
\* is kept while the next one runs.
SameOutcome(c, before) ==
    /\ c.base \in {"pending", before.base}
    /\ \A i \in Files : c.results[i] \in {"pending", before.results[i]}
    /\ c.zip \in {"none", before.zip}

RepeatsOutcomes ==
    finished # <<>> => \A c \in Range(runs') \cup Range(finished') : SameOutcome(c, finished[1])

NextRepeat ==
    \/ \E entry \in {"desktop", "mobile"} : ClickOn(entry, TRUE)
    \/ ToggleMenu
    \/ Render
    \/ Settle /\ RepeatsOutcomes

SpecRepeat == Init /\ [][NextRepeat]_vars

\* The transformation on its own: the site serves, behind the first manifest
\* entry, any document of up to MaxStmts statements, and one call fetches the
\* base document and that entry with every request succeeding.
MaxStmts == 2

RECURSIVE DocsUpTo(_)
DocsUpTo(n) ==
    IF n = 0 THEN {<<>>}
    ELSE LET shorter == DocsUpTo(n - 1)
         IN  shorter \cup {Append(d, st) : d \in shorter, st \in StmtForms}

InitRewrite ==
    /\ variant \in Variants
    /\ isDownloading = FALSE
    /\ rendered = FALSE
    /\ menuOpen = FALSE
    /\ deployed \in {[base |-> "withBodyClose", docs |-> [RepoDocs EXCEPT ![1] = d]] :
                        d \in DocsUpTo(MaxStmts) \ {<<>>}}
    /\ call = "none"
    /\ runs = <<>>
    /\ finished = <<>>
    /\ PoolInit

NextRewrite ==
    \/ Click("desktop")
    \/ \E r \in DOMAIN runs : FetchBaseSettle(r, "ok")
    \/ \E r \in DOMAIN runs : ReadBaseSettle(r, TRUE)
    \/ \E r \in DOMAIN runs : FetchFileSettle(r, 1, "ok")
    \/ \E r \in DOMAIN runs : ReadFileSettle(r, 1, TRUE)

SpecRewrite == InitRewrite /\ [][NextRewrite]_vars

\* The visualizer of the memory-pool page on its own: it shares no state with
\* handleDownload, so the page is left untouched while its timers run.

\* the interval's callback runs: it reads the array it closed over, sets the
\* status and pointerIndex, and starts the timer of its delayed update
Tick(r1, r2) ==
    /\ interval = 0
    /\ LET step == TickStep(captured, r1, r2)
       IN  /\ action' = ActionAfterTick(action, step.kind)
           /\ IF step.kind = "NONE"
              THEN UNCHANGED <<pointerIndex, timeouts>>
              ELSE /\ pointerIndex' = step.index
                   /\ timeouts' = Append(timeouts, [left |-> TimeoutMs,
                                                    index |-> step.index,
                                                    free |-> step.free])
    /\ interval' = IntervalMs
    /\ UNCHANGED <<siteVars, blocks, captured, effectDue>>

\* a delayed update runs: setBlocks with a new array
Timeout ==
    /\ timeouts # <<>>
    /\ Head(timeouts).left = 0
    /\ blocks' = Updated(blocks, Head(timeouts).index, Head(timeouts).free)
    /\ timeouts' = Tail(timeouts)
    /\ effectDue' = TRUE
    /\ UNCHANGED <<siteVars, pointerIndex, action, captured, interval>>

\* React renders with the new array and, blocks being the effect's dependency,
\* runs its cleanup (clearInterval) and the effect again (a new interval whose
\* callback closes over the new array)
Effect ==
    /\ effectDue
    /\ effectDue' = FALSE
    /\ captured' = blocks
    /\ interval' = IntervalMs
    /\ UNCHANGED <<siteVars, blocks, pointerIndex, action, timeouts>>

\* the time until the next timer is due passes; a due timer and a due render
\* run first
Elapse ==
    /\ ~effectDue
    /\ interval > 0
    /\ \A k \in DOMAIN timeouts : timeouts[k].left > 0
    /\ LET lefts == {interval} \cup {timeouts[k].left : k \in DOMAIN timeouts}
           d == CHOOSE x \in lefts : \A y \in lefts : x <= y
       IN  /\ interval' = interval - d
           /\ timeouts' = [k \in DOMAIN timeouts |->
                             [timeouts[k] EXCEPT !.left = @ - d]]
    /\ UNCHANGED <<siteVars, blocks, pointerIndex, action, captured, effectDue>>

InitPool ==
    /\ variant = "memorypool"
    /\ isDownloading = FALSE
    /\ rendered = FALSE
    /\ menuOpen = FALSE
    /\ deployed = [base |-> "withBodyClose", docs |-> RepoDocs]
    /\ call = "none"
    /\ runs = <<>>
    /\ finished = <<>>
    /\ PoolInit

NextPool ==
    \/ \E r1, r2 \in Randoms : Tick(r1, r2)
    \/ Timeout
    \/ Effect
    \/ Elapse

SpecPool == InitPool /\ [][NextPool]_vars

\* --------------------------------------------------------------- claims

\* every call past the guard: those in flight and the one that finished last
Calls == Range(runs) \cup Range(finished)

\* C1: a call of handleDownload made while an earlier one is in flight returns
\* at the guard: it starts no run (so no fetch, archive, save or alert), and at
\* every moment at most one run is in flight, which the rendered flag shows.
C1_ReentrancyGuard ==
    /\ [](Len(runs) <= 1 /\ (runs # <<>> => rendered /\ isDownloading))
    /\ [][(call' = "returned" /\ call # "returned")
            => UNCHANGED <<runs, finished, isDownloading>>]_vars

\* a call was made from the mobile menu while a run was in flight, and returned
C1_Witness == call = "returned" /\ Len(runs) = 1 /\ menuOpen

\* C2: a call whose fetch of index.html rejected or came back not ok saved no
\* archive and showed exactly one alert.
C2_TotalFailure ==
    \A c \in Calls :
        c.base \in {"reject", "notok"} => c.pc = "done" /\ c.saved = <<>> /\ c.alerts = 1

\* a call ended on a base document that came back not ok
C2_Witness == \E c \in Range(finished) : c.base = "notok" /\ c.alerts = 1

\* the manifest entries whose fetch or body read failed in call c
FailedIn(c) == {i \in Files : c.results[i] = "failed"}

\* the segment the code appends for manifest entry i when its text is loaded
LoadedSegment(i) == SourceSegment(filesToBundle[i], Transform(DocText(deployed.docs[i])))

\* the bundle of c holds the placeholder of the failed entry j at j's place,
\* and every other entry with its marker and its rewritten text
ShowsOneFailure(c, j) ==
    /\ Includes(c.combinedCode, ErrorSegment(filesToBundle[j]))
    /\ ~Includes(c.combinedCode, <<"/* --- Source: ", filesToBundle[j]>>)
    /\ \A i \in Files \ {j} :
          /\ Includes(c.combinedCode, LoadedSegment(i))
          /\ (i < j) = (IndexOf(c.combinedCode, LoadedSegment(i))
                          < IndexOf(c.combinedCode, ErrorSegment(filesToBundle[j])))

\* C3 as stated: a call that read the base document and failed on exactly one
\* manifest entry saved one archive, and its bundle holds the placeholder of
\* that entry at its place and the other four entries, marker and text.
C3_AsStated ==
    \A c \in Range(finished) :
        (c.base = "read" /\ Cardinality(FailedIn(c)) = 1)
            => /\ Len(c.saved) = 1
               /\ \A j \in FailedIn(c) : ShowsOneFailure(c, j)

\* C3, amended: such a call built the bundle as stated and got to the zip
\* generation; it saved one archive holding that bundle when the generation
\* succeeded, and showed the alert and saved nothing when it failed.
C3_PartialFailure ==
    \A c \in Range(finished) :
        (c.base = "read" /\ Cardinality(FailedIn(c)) = 1)
            => /\ \A j \in FailedIn(c) : ShowsOneFailure(c, j)
               /\ \/ /\ c.zip = "ok" /\ Len(c.saved) = 1 /\ c.alerts = 0
                     /\ \A j \in FailedIn(c) :
                           Includes(c.saved[1].files[1].content, ErrorSegment(filesToBundle[j]))
                  \/ c.zip = "fail" /\ c.saved = <<>> /\ c.alerts = 1

\* a call failed on the third entry alone and saved its archive
C3_Witness ==
    \E c \in Range(finished) :
        c.base = "read" /\ FailedIn(c) = {3} /\ c.zip = "ok" /\ Len(c.saved) = 1

\* the paths of the failed entries of c, in manifest order
FailedPaths(c) == SelectSeq(filesToBundle, LAMBDA f : \E i \in FailedIn(c) : filesToBundle[i] = f)

\* C4: on both pages every failed manifest fetch is reported by its placeholder
\* in the bundle and by one console warning, and by no alert.
C4_AsStated ==
    \A c \in Calls :
        /\ c.warns = FailedPaths(c)
        /\ \A j \in FailedIn(c) : Includes(c.combinedCode, ErrorSegment(filesToBundle[j]))
        /\ c.alerts = IF c.base \in {"reject", "notok", "unreadable"} \/ c.zip = "fail" THEN 1 ELSE 0

\* C5: the flag is set exactly while a call is past the guard and not yet
\* through its finally block: it goes up only when a call passes the guard,
\* comes down only when a call ends (saved archive, base failure or any other
\* exception), and every call that set it brings it down again.
C5_FlagLifecycle ==
    /\ [](isDownloading <=> runs # <<>>)
    /\ [][isDownloading' # isDownloading
            => IF isDownloading'
               THEN call' = "passed" /\ Len(runs') = Len(runs) + 1
               ELSE Len(runs') = Len(runs) - 1 /\ finished' # <<>>]_vars
    /\ (isDownloading ~> ~isDownloading)

\* a call that ended in the outer catch after the loop left the flag idle
C5_Witness == ~isDownloading /\ \E c \in Range(finished) : c.zip = "fail" /\ c.alerts = 1

\* C6: with every request answered as in the call before, the archive a call
\* is about to save (file name, index.html text, README.md text) is the
\* archive the call before saved.
C6_Idempotence ==
    \A c \in Range(runs) :
        (c.pc = "zip" /\ finished # <<>> /\ finished[1].zip = "ok")
            => [name |-> zipName(variant), files |-> c.zipFiles] = finished[1].saved[1]

\* a second call reached zip generation after a first one that saved an archive
\* with one failed entry
C6_Witness ==
    \E c \in Range(runs) :
        /\ c.pc = "zip" /\ finished # <<>> /\ finished[1].zip = "ok"
        /\ finished[1].results[2] = "failed" /\ finished[1].results[3] = "loaded"

\* the segments of entries i..n of call c, in manifest order, none for an entry
\* still pending
RECURSIVE SegmentsFrom(_, _)
SegmentsFrom(c, i) ==
    IF i > Len(filesToBundle) THEN <<>>
    ELSE (CASE c.results[i] = "loaded"  -> LoadedSegment(i)
            [] c.results[i] = "failed"  -> ErrorSegment(filesToBundle[i])
            [] c.results[i] = "pending" -> <<>>)
         \o SegmentsFrom(c, i + 1)

\* C8: the combined code is the master preamble followed by the segments of
\* the entries handled so far in manifest order, each loaded entry as its
\* source marker and its rewritten text, whatever the outcomes were.
C8_ConcatenationOrder ==
    \A c \in Calls :
        c.combinedCode = IF c.base = "read"
                         THEN masterImports(variant) \o SegmentsFrom(c, 1)
                         ELSE <<>>

\* a call loaded all five entries
C8_Witness == \E c \in Calls : c.pc = "zip" /\ \A i \in Files : c.results[i] = "loaded"

\* C9: the index.html of the archive is the base document with the injected
\* block (loader tag and inline script around the combined code) right before
\* the first closing body marker, or at the very end when there is none.
C9_AsStated ==
    \A c \in Range(runs) :
        c.pc = "zip" =>
            LET b == BaseText(deployed.base)
                p == IndexOf(b, bodyClose)
                block == InjectedBlock(c.combinedCode)
            IN  c.zipFiles[1].content =
                    IF p > 0
                    THEN SubSeq(b, 1, p - 1) \o block \o <<"\n">> \o bodyClose
                         \o Tail_(b, p + Len(bodyClose))
                    ELSE b \o block

\* C10: in one call index.html is fetched first and the manifest entries one
\* at a time in manifest order, each only after everything before it has
\* settled; at most one request is outstanding.
C10_FetchSequencing ==
    \A c \in Calls :
        /\ Cardinality(c.pending \cup c.reading) <= 1
        /\ c.issued = [k \in 1..Len(c.issued) |-> k - 1]
        /\ c.pending \cup c.reading \subseteq {c.issued[Len(c.issued)]}
        /\ \A k \in 2..Len(c.issued) :
              c.base = "read" /\ \A j \in 1..(c.issued[k] - 1) : c.results[j] # "pending"

\* the third entry is being fetched after one failure and one success
C10_Witness ==
    \E c \in Range(runs) :
        c.pending = {3} /\ c.results[1] = "failed" /\ c.results[2] = "loaded"

\* the first manifest entry of call c was loaded and rewritten
Rewrote(c) == c.results[1] = "loaded" /\ c.results[2] = "pending"

TimesIssued(c, i) == Cardinality({k \in DOMAIN c.issued : c.issued[k] = i})

\* C11: a call past the guard requests index.html exactly once and no path
\* more than once; once the base document is read and the loop is over, each
\* of the five paths was requested exactly once, whatever its outcome and
\* whatever the calls before fetched.
C11_NoRetries ==
    \A c \in Calls :
        /\ TimesIssued(c, 0) = 1
        /\ \A i \in Files : TimesIssued(c, i) <= 1
        /\ (c.base = "read" /\ c.cursor > Len(filesToBundle))
              => \A i \in Files : TimesIssued(c, i) = 1 /\ c.results[i] # "pending"

\* a call is through its loop with two failed entries
C11_Witness ==
    \E c \in Range(runs) : c.pc = "zip" /\ FailedIn(c) = {1, 4} /\ Len(c.issued) = 6

\* how the fetch or the body read of index.html can fail
BaseFailures == {"reject", "notok", "unreadable"}

\* C12: a call whose fetch of index.html failed is over at that point: it
\* fetched no manifest file, added nothing to an archive and started no zip
\* generation.
C12_BaseFailureAbort ==
    /\ [](/\ \A c \in Range(runs) : c.base \notin BaseFailures
          /\ \A c \in Range(finished) :
                c.base \in BaseFailures
                    => /\ c.issued = <<0>>
                       /\ \A i \in Files : c.results[i] = "pending"
                       /\ c.combinedCode = <<>> /\ c.zip = "none" /\ c.saved = <<>>)
    /\ [][\A c \in Range(finished') \ Range(finished) :
             c.base \in BaseFailures
                 => \E r \in DOMAIN runs :
                       /\ runs[r].pc \in {"fetchBase", "readBase"}
                       /\ runs[r].zipFiles = <<>>
                       /\ Len(runs') = Len(runs) - 1]_vars

\* a call ended on a rejected fetch of index.html
C12_Witness == \E c \in Range(finished) : c.base = "reject" /\ c.issued = <<0>>

\* C13: the flag comes down only in the step in which the call in flight ends
\* with its archive saved or its alert shown, and a user action during a call
\* (a click on a download button, the menu button, or anything that only makes
\* the page render again, as scrolling and the tab buttons do) leaves the call
\* and the flag as they are.
C13_NoCancellation ==
    /\ [][(isDownloading /\ ~isDownloading')
            => /\ finished' # <<>> /\ finished' # finished
               /\ Len(finished'[1].saved) + finished'[1].alerts = 1]_vars
    /\ [][(runs # <<>> /\ (call' # call \/ menuOpen' # menuOpen \/ rendered' # rendered))
            => runs' = runs /\ isDownloading']_vars

\* the menu was opened and a download button clicked while a call was awaiting
\* a manifest file
C13_Witness ==
    \E c \in Range(runs) : c.pc = "files" /\ c.cursor = 2 /\ menuOpen /\ call = "returned"

\* the two entries of the archive of call c
ArchiveOf(c) ==
    << [name |-> "index.html",
        content |-> Inject(BaseText(deployed.base), c.combinedCode)],
       [name |-> "README.md", content |-> readme(variant)] >>

\* C14: an archive handed to saveAs holds exactly two entries, index.html (the
\* base document with the bundle injected) and README.md, each once; a call
\* holds both from the moment it starts the zip generation and none before,
\* and what is saved is what was added before the generation started.
C14_ArchiveContents ==
    /\ [](\A c \in Calls :
            /\ \A k \in DOMAIN c.saved : c.saved[k].files = ArchiveOf(c)
            /\ c.pc = "zip" => c.zipFiles = ArchiveOf(c)
            /\ c.pc \in {"fetchBase", "readBase", "files"} => c.zipFiles = <<>>)
    /\ [][\A c \in Range(finished') \ Range(finished) :
             c.saved # <<>>
                 => \E r \in DOMAIN runs :
                       runs[r].pc = "zip" /\ c.saved[1].files = runs[r].zipFiles]_vars

\* an archive was saved from a base document without a closing body marker
C14_Witness ==
    \E c \in Range(finished) :
        Len(c.saved) = 1 /\ Len(c.saved[1].files) = 2 /\ deployed.base = "noBodyClose"

\* C15: on each page every identifier a bundled document imports from an
\* external package is among the names the master preamble declares, and the
\* preamble declares no name twice.
C15_PreambleCoverage ==
    /\ \A i \in Files : ExternalImports(variant, i) \subseteq Range(PreambleNames(variant))
    /\ Cardinality(Range(PreambleNames(variant))) = Len(PreambleNames(variant))

\* the memory-pool page bundled its components, which import names the other
\* page does not use
C15_Witness ==
    /\ variant = "memorypool"
    /\ {"useMemo", "Instances", "AnimatePresence"}
          \subseteq ExternalImports(variant, 2) \cup ExternalImports(variant, 3)
    /\ \E c \in Calls : c.results[2] = "loaded" /\ c.results[3] = "loaded" /\ c.pc = "files"

\* C16: in the manifest every name a document takes from another document is
\* declared by a document listed before it, and no two documents of a page
\* declare the same top-level name.
C16_ManifestOrder ==
    /\ \A i \in DOMAIN filesToBundle :
          \A n \in References(variant, filesToBundle[i]) :
              \E j \in 1..(i - 1) : n \in Declares(variant, filesToBundle[j])
    /\ \A i, j \in DOMAIN filesToBundle :
          i # j => Declares(variant, filesToBundle[i])
                     \cap Declares(variant, filesToBundle[j]) = {}

\* the pybind11 page bundled App.tsx, which takes five names from the two
\* component documents bundled before it
C16_Witness ==
    /\ variant = "pybind11"
    /\ Cardinality(References(variant, filesToBundle[4])) = 5
    /\ \E c \in Calls : c.results[4] = "loaded" /\ c.results[3] = "loaded"
                        /\ c.results[2] = "loaded" /\ c.pc = "files"

\* C17: on both pages the README.md of the archive is the same static text
\* whatever the fetches did, and it holds a command that starts a local server.
C17_AsStated ==
    \A c \in Range(runs) :
        c.pc = "zip" =>
            /\ c.zipFiles[2].name = "README.md"
            /\ c.zipFiles[2].content = readme(variant)
            /\ Range(c.zipFiles[2].content) \cap serverCommands # {}

\* `</script`, which ends a script element wherever it stands in its text
scriptClose == <<"<", "/", "s", "c", "r", "i", "p", "t">>

\* the text of index.html h between the opening tag of the inline script block
\* and the closing tag the handler wrote
InlineScriptText(h) ==
    SubSeq(h, IndexOf(h, <<scriptOpen>>) + 1, IndexOf(h, <<scriptEnd>>) - 1)

\* C19: in the index.html of the archive no script tag text of a bundled
\* document stands unescaped inside the inline script block, so that only the
\* block's own closing tag ends it.
C19_AsStated ==
    \A c \in Range(runs) :
        c.pc = "zip" => ~Includes(InlineScriptText(c.zipFiles[1].content), scriptClose)

\* the script a browser runs from index.html h: the text after the opening tag
\* of the inline script block up to the first `</script`
BrowserScriptText(h) ==
    LET t == Tail_(h, IndexOf(h, <<scriptOpen>>) + 1)
        ends == {k \in DOMAIN t : t[k] = scriptEnd \/ HasAt(t, k, scriptClose)}
    IN  SubSeq(t, 1, (CHOOSE k \in ends : \A m \in ends : k <= m) - 1)

\* C18: when all six fetches succeeded, the page served from the archive runs
\* the whole bundle (the preamble and the five rewritten documents) as its
\* inline script, which is what it needs to behave as the original page does.
C18_AsStated ==
    \A c \in Range(runs) :
        (c.pc = "zip" /\ \A i \in Files : c.results[i] = "loaded")
            => BrowserScriptText(c.zipFiles[1].content) = <<"\n">> \o c.combinedCode \o <<"\n">>

\* the bundle of a call that loaded document d alone, behind the first entry
BundleOfFirst(d) ==
    masterImports(variant) \o SourceSegment(filesToBundle[1], Transform(DocText(d)))

\* C20 as stated: a document with `export default A;` is rewritten as the same
\* document without that statement is: nothing of the statement is left.
C20_AsStated ==
    \A c \in Calls :
        (Rewrote(c) /\ "exportDefault" \in Range(deployed.docs[1]))
            => c.combinedCode
                 = BundleOfFirst(SelectSeq(deployed.docs[1], LAMBDA st : st # "exportDefault"))

\* C20, amended: the rewrite takes the words `export default` and the white
\* space after them out of the statement and leaves the rest, `A;`, in place.
C20_DefaultExportRemoval ==
    \A c \in Calls :
        (Rewrote(c) /\ "exportDefault" \in Range(deployed.docs[1]))
            => c.combinedCode
                 = BundleOfFirst([k \in DOMAIN deployed.docs[1] |->
                                    IF deployed.docs[1][k] = "exportDefault"
                                    THEN "defaultResidue" ELSE deployed.docs[1][k]])

\* a document that ends on `export default A;` was rewritten
C20_Witness ==
    \E c \in Calls : Rewrote(c) /\ deployed.docs[1] = <<"const", "exportDefault">>

\* the delayed update a tick has just set
Started == timeouts'[Len(timeouts')]

\* a step that initiates an allocation (free = FALSE) or a deallocation
\* (free = TRUE): it starts the timer of a delayed update writing that value
Initiates(free) == Len(timeouts') = Len(timeouts) + 1 /\ Started.free = free

\* a step in which the delayed update of such a step runs
Completes(free) == Timeout /\ Head(timeouts).free = free

\* C21: every allocation step takes the block that shows the Head marker, the
\* lowest-indexed free block when the step is initiated; when its delayed
\* update has run that block is used and the Head marker is on the lowest
\* of the other free blocks, if there is one, and on no block otherwise.
C21_FreeListPop ==
    /\ [][Initiates(FALSE)
            => /\ HeadMarkers(blocks) = {Started.index}
               /\ blocks[Started.index]
               /\ \A j \in DOMAIN blocks : blocks[j] => Started.index <= j]_vars
    /\ [][Completes(FALSE)
            => LET i == Head(timeouts).index
                   rest == {j \in DOMAIN blocks : blocks[j] /\ j # i}
               IN  /\ ~blocks'[i]
                   /\ HeadMarkers(blocks') = {j \in rest : \A k \in rest : j <= k}]_vars

\* the first allocation is over: block 0 is used and block 1 shows the marker
C21_Witness ==
    /\ action = "ALLOC"
    /\ timeouts = <<>>
    /\ ~effectDue
    /\ pointerIndex = 0
    /\ blocks = ArrayOf(<<FALSE, TRUE, TRUE, TRUE, FALSE, FALSE>>)
    /\ HeadMarkers(blocks) = {1}

\* C22: every deallocation step pushes the freed block to the head of the
\* free list: when its delayed update has run, the freed block is free and
\* shows the Head marker, and the allocation step that comes next takes it.
C22_AsStated ==
    /\ [][Completes(TRUE)
            => /\ blocks'[Head(timeouts).index]
               /\ HeadMarkers(blocks') = {Head(timeouts).index}]_vars
    /\ [][(Initiates(FALSE) /\ action = "FREE") => Started.index = pointerIndex]_vars

\* C23: every call of handleDownload that passed the guard ends with exactly
\* one outcome: one archive saved and no alert, or one alert and no archive
\* saved; the alert it is when the base body cannot be read or the zip
\* generation fails; while the call is in flight it has produced neither.
C23_ExclusiveOutcome ==
    /\ \A c \in Range(runs) : c.saved = <<>> /\ c.alerts = 0
    /\ \A c \in Range(finished) :
          /\ \/ Len(c.saved) = 1 /\ c.alerts = 0
             \/ c.saved = <<>> /\ c.alerts = 1
          /\ (c.base = "unreadable" \/ c.zip = "fail") => (c.saved = <<>> /\ c.alerts = 1)
          /\ (c.zip = "ok") = (Len(c.saved) = 1)

\* a call ended on a failed zip generation, after the loop loaded every entry
C23_Witness ==
    \E c \in Range(finished) :
        /\ c.zip = "fail" /\ c.alerts = 1 /\ c.saved = <<>>
        /\ \A i \in Files : c.results[i] = "loaded"

\* how often lit occurs in s
Occurrences(s, lit) == Cardinality({k \in 1..Len(s) : HasAt(s, k, lit)})

\* the segment that stands for manifest entry i in the bundle of call c
SegmentOf(c, i) ==
    IF c.results[i] = "loaded" THEN LoadedSegment(i) ELSE ErrorSegment(filesToBundle[i])

\* where the segment after that of entry i starts in the bundle of call c
EndOfSegment(c, i) == IndexOf(c.combinedCode, SegmentOf(c, i)) + Len(SegmentOf(c, i))

\* the bundle of call c holds every manifest entry once and in manifest
\* order: a loaded entry as its source marker and its rewritten text, a failed
\* one as its placeholder with no marker and nothing else, each segment
\* starting where the one before it ends, the first after the preamble
CoversManifest(c) ==
    /\ \A i \in Files :
          /\ c.results[i] \in {"loaded", "failed"}
          /\ Occurrences(c.combinedCode, <<"/* --- Source: ", filesToBundle[i]>>)
                = IF c.results[i] = "loaded" THEN 1 ELSE 0
          /\ Occurrences(c.combinedCode, <<"/* Error loading ", filesToBundle[i]>>)
                = IF c.results[i] = "failed" THEN 1 ELSE 0
          /\ IndexOf(c.combinedCode, SegmentOf(c, i))
                = IF i = 1 THEN Len(masterImports(variant)) + 1 ELSE EndOfSegment(c, i - 1)
    /\ EndOfSegment(c, Len(filesToBundle)) = Len(c.combinedCode) + 1

\* the calls that left the loop
Bundled == {c \in Calls : c.base = "read" /\ c.pc \in {"zip", "done"}}

\* C24 as stated: every bundle covers the manifest, and whatever subset of the
\* entries failed, the call produced an archive.
C24_AsStated ==
    /\ \A c \in Bundled : CoversManifest(c)
    /\ \A c \in Range(finished) : c.base = "read" => Len(c.saved) = 1

\* C24, amended: every bundle covers the manifest; whatever subset of the
\* entries failed, the call reached the zip generation with that bundle, and
\* it saved one archive when the generation succeeded and none when it failed.
C24_ManifestCoverage ==
    /\ \A c \in Bundled :
          /\ CoversManifest(c)
          /\ c.pc = "zip" => c.zipFiles # <<>>
    /\ \A c \in Range(finished) :
          c.base = "read" => \/ c.zip = "ok" /\ Len(c.saved) = 1
                             \/ c.zip = "fail" /\ c.saved = <<>>

\* a call failed on all five entries and saved its archive
C24_Witness ==
    \E c \in Range(finished) : FailedIn(c) = Files /\ c.zip = "ok" /\ Len(c.saved) = 1

\* statement st without its import declaration or its export qualifier; any
\* other statement as it is
Stripped(st) ==
    CASE st \in ImportForms \cup {"reExport"} -> nl
      [] st = "exportDefault" -> Tail_(StmtText(st), Len(kwExport \o sp \o kwDefault \o sp) + 1)
      [] st \in (NamedExportForms \cup OtherExportForms) \ {"exportDefault", "reExport"}
            -> Tail_(StmtText(st), Len(kwExport \o sp) + 1)
      [] OTHER -> StmtText(st)

\* the texts document d may become when nothing but import declarations and
\* export qualifiers is taken out of it
RECURSIVE FrameTexts(_)
FrameTexts(d) ==
    IF d = <<>> THEN {<<>>}
    ELSE {front \o last : front \in FrameTexts(SubSeq(d, 1, Len(d) - 1)),
                          last \in {StmtText(d[Len(d)]), Stripped(d[Len(d)])}}

\* C25: the rewrite takes nothing but import declarations and export
\* qualifiers out of a document: the text of every loaded entry is in the
\* bundle with every other statement, string literals, template literals and
\* comments included, unchanged and in its order.
C25_AsStated ==
    \A c \in Calls : \A i \in Files :
        c.results[i] = "loaded"
            => \E t \in FrameTexts(deployed.docs[i]) :
                  Includes(c.combinedCode, SourceSegment(filesToBundle[i], t))

\* the loop of handleDownload of page v from entry i on, on the outcomes that
\* call c met
RECURSIVE ReplayFiles(_, _, _, _)
ReplayFiles(v, c, run, i) ==
    IF i > Len(filesToBundle) THEN run
    ELSE ReplayFiles(v, c,
           IF c.results[i] = "loaded"
           THEN FileLoaded(v, [run EXCEPT !.pending = @ \ {i}, !.reading = @ \cup {i}],
                           i, DocText(deployed.docs[i]))
           ELSE FileFailed(v, run, i),
           i + 1)

\* handleDownload of page v run to its end on the outcomes that call c met
Replay(v, c) ==
    Summary(
      IF c.base \in {"reject", "notok"}
      THEN Catch(v, [NewRun EXCEPT !.base = c.base])
      ELSE IF c.base = "unreadable"
      THEN Catch(v, [NewRun EXCEPT !.pc = "readBase", !.pending = {}, !.reading = {0},
                                   !.base = "unreadable"])
      ELSE LET packed == ReplayFiles(v, c,
                           NextIteration(v,
                             [NewRun EXCEPT !.pc = "files", !.base = "read",
                                            !.pending = {}, !.reading = {},
                                            !.html = BaseText(deployed.base),
                                            !.combinedCode = InitialCombinedCode(v)]),
                           1)
           IN  IF c.zip = "ok"
               THEN [packed EXCEPT !.zip = "ok",
                                   !.saved = Append(@, [name |-> zipName(v),
                                                        files |-> packed.zipFiles])]
               ELSE Catch(v, [packed EXCEPT !.zip = "fail"]))

\* what a finished call of page v did, but for the preamble text, the README
\* text and the name of the archive
Events(v, run) ==
    [ fetches |-> run.issued, base |-> run.base, results |-> run.results,
      zip |-> run.zip, alerts |-> run.alerts, warns |-> run.warns,
      errors |-> run.errors,
      code |-> Tail_(run.combinedCode,
                     IF run.base = "read" THEN Len(masterImports(v)) + 1 ELSE 1),
      saved |-> [k \in DOMAIN run.saved |->
                   [j \in DOMAIN run.saved[k].files |-> run.saved[k].files[j].name]] ]

\* C26: on the same fetch outcomes the handleDownload of the two pages issue
\* the same fetches and produce the same save, alert and log events and the
\* same bundle after the preamble: they differ in the preamble text, the
\* README text and the archive name only.
C26_AsStated ==
    \A c \in Range(finished) :
        /\ Replay(variant, c) = c
        /\ Events("pybind11", Replay("pybind11", c))
              = Events("memorypool", Replay("memorypool", c))

\* C27: the block array always has six entries; an allocation step is
\* initiated only when some block is free, and on a block that is free then;
\* a deallocation step only when some block is used, and on a block that is
\* used then; a delayed update changes no block but the one it was set for.
C27_BlockSafety ==
    /\ [](DOMAIN blocks = 0..5 /\ Length(blocks) = 6)
    /\ [][Initiates(FALSE)
            => /\ \E j \in DOMAIN blocks : blocks[j]
               /\ Started.index \in DOMAIN blocks
               /\ blocks[Started.index]]_vars
    /\ [][Initiates(TRUE)
            => /\ \E j \in DOMAIN blocks : ~blocks[j]
               /\ Started.index \in DOMAIN blocks
               /\ ~blocks[Started.index]]_vars
    /\ [][Timeout
            => \A j \in DOMAIN blocks \cup DOMAIN blocks' :
                  j # Head(timeouts).index
                      => j \in DOMAIN blocks \cap DOMAIN blocks' /\ blocks'[j] = blocks[j]]_vars

\* the delayed update of a deallocation of block 5 has run and left all six
\* blocks free
C27_Witness ==
    /\ action = "FREE"
    /\ timeouts = <<>>
    /\ pointerIndex = 5
    /\ \A j \in DOMAIN blocks : blocks[j]

\* a step in which the interval's callback runs: the interval was due and is
\* armed again, by no render
Ticks == interval = 0 /\ interval' = IntervalMs /\ UNCHANGED <<blocks, captured, effectDue>>

\* C28: in every state some block can still change: a delayed update is on
\* its way, or the next tick can initiate a step.  With all six blocks used a
\* tick initiates a deallocation; with all six free it initiates an
\* allocation or changes nothing; in a mixed state it initiates one step, an
\* allocation or a deallocation.
C28_Progress ==
    /\ [](\/ timeouts # <<>>
          \/ \E r1, r2 \in Randoms : TickStep(captured, r1, r2).kind # "NONE")
    /\ [][Ticks
            => LET free == {j \in DOMAIN blocks : blocks[j]}
               IN  CASE free = {} -> Initiates(TRUE)
                     [] free = DOMAIN blocks ->
                            \/ Initiates(FALSE)
                            \/ UNCHANGED <<blocks, pointerIndex, action, timeouts>>
                     [] OTHER -> /\ Initiates(FALSE) \/ Initiates(TRUE)
                                 /\ Len(timeouts') = 1]_vars

\* with all six blocks used, a tick has initiated a deallocation
C28_Witness ==
    /\ \A j \in DOMAIN blocks : ~blocks[j]
    /\ action = "FREE"
    /\ Len(timeouts) = 1
    /\ timeouts[1].free

\* C29: the status starts as IDLE; a step that initiates an allocation sets
\* it to ALLOC, one that initiates a deallocation to FREE, and no other step
\* changes it: once it has left IDLE it never returns there, and it names the
\* kind of the step initiated last (the one whose delayed update is on its
\* way, if one is).
C29_Status ==
    /\ action = "IDLE"
    /\ [](/\ action \in {"IDLE", "ALLOC", "FREE"}
          /\ action = "IDLE" => (blocks = initialBlocks /\ timeouts = <<>>)
          /\ timeouts # <<>> =>
                action = (IF timeouts[Len(timeouts)].free THEN "FREE" ELSE "ALLOC")
          /\ StatusText(action) = "Idle" => action = "IDLE")
    /\ [][Initiates(FALSE) => action' = "ALLOC"]_vars
    /\ [][Initiates(TRUE) => action' = "FREE"]_vars
    /\ [][~(Initiates(FALSE) \/ Initiates(TRUE)) => action' = action]_vars
    /\ [][action # "IDLE" => action' # "IDLE"]_vars

\* block 0 was allocated and block 4 freed after it: the status is FREE
C29_Witness ==
    /\ action = "FREE"
    /\ timeouts = <<>>
    /\ pointerIndex = 4
    /\ blocks = ArrayOf(<<FALSE, TRUE, TRUE, TRUE, TRUE, FALSE>>)

============================================================================
